---- MODULE Spec2Model ----
(***************************************************************************)
(* Model of src/Galatic_Empire_Cost_Living.ipynb: the notebook's cells,    *)
(* run top to bottom, as a state machine.                                  *)
(*                                                                         *)
(* Scalars stored in a DataFrame are tagged tuples, so that values of      *)
(* different kinds can be compared:                                        *)
(*   <<"nan">>                 a missing value (NaN)                       *)
(*   <<"num", n>>              the integer n (a count, the 0 of fillna, a  *)
(*                             target value)                               *)
(*   <<"f64", hi, lo, e>>      the float64 (hi * 2^26 + lo) * 2^e, with    *)
(*                             2^26 <= hi < 2^27 and 0 <= lo < 2^26: a     *)
(*                             53-bit significand in two limbs; 0.0 is     *)
(*                             <<"f64", 0, 0, 0>>                          *)
(*   <<"hex", res, i, j>>      an H3 cell identifier of resolution res     *)
(*   <<"pred", algo, xs>>      the value a fitted model of kind algo       *)
(*                             returns for the feature row xs              *)
(* float64 division and addition round to nearest, ties to even.           *)
(* A DataFrame is [cols |-> sequence of column names,                      *)
(*                 rows |-> sequence of rows, each a tuple of scalars].    *)
(***************************************************************************)
EXTENDS Integers, Sequences, FiniteSets

VARIABLES
    train,                \* train = pd.read_csv(train.csv)
    test_csv,             \* the content of test.csv, never written
    test,                 \* test = pd.read_csv(test.csv), later written in place
    mobility,             \* the records of mobility_data.parquet, in file order
    pos,                  \* records of mobility already delivered by iter_batches
    cuts,                 \* lengths of the batches delivered so far
    desired_resolution,
    hex_features,         \* insertion-ordered dict: sequence of [hex_id, vals]
    mobility_features_df,
    missing,              \* [train |-> missing_train_hex, test |-> missing_test_hex]
    stdout,               \* the two counts printed by the diagnostic cell
    train_merged,
    X_train,
    model_rf,
    model_xg,
    test_merged,
    test_X,
    submission_rf,        \* submission_rf.csv
    submission_xg,        \* submission_xg.csv
    error,                \* the exception that stopped the run, or "none"
    pc                    \* the next cell to run

vars == <<train, test_csv, test, mobility, pos, cuts, desired_resolution,
          hex_features, mobility_features_df, missing, stdout, train_merged,
          X_train, model_rf, model_xg, test_merged, test_X, submission_rf,
          submission_xg, error, pc>>

(***************************************************************************)
(* Bounds of the model.                                                    *)
(***************************************************************************)
\* chunk_size is 500_000 in the notebook; the model scales it down.
chunk_size == 3
\* longest mobility dataset under SpecAgg
MaxRecords == 4
\* longest mobility dataset under Spec
MaxMobility == 2
\* longest labeled table under Spec
MaxTrain == 2
\* longest unlabeled table under Spec
MaxTest == 2

(***************************************************************************)
(* Scalars.                                                                *)
(***************************************************************************)
NaN == <<"nan">>

Num(n) == <<"num", n>>

Min(a, b) == IF a <= b THEN a ELSE b

F64Zero == <<"f64", 0, 0, 0>>

\* round to nearest, ties to even: the significand (h, l) with exponent e,
\* followed by the guard bit g and the sticky flag t
F64Round(h, l, e, g, t) ==
    IF g = 1 /\ (t \/ l % 2 = 1)
    THEN IF l + 1 < 2 ^ 26 THEN <<"f64", h, l + 1, e>>
         ELSE IF h + 1 < 2 ^ 27 THEN <<"f64", h + 1, 0, e>>
         ELSE <<"f64", 2 ^ 26, 0, e + 1>>
    ELSE <<"f64", h, l, e>>

RECURSIVE BitLen(_)
BitLen(q) == IF q = 0 THEN 0 ELSE 1 + BitLen(q \div 2)

\* the least s with S * 2^s >= n, for S > 0
RECURSIVE Lead(_, _)
Lead(S, n) == IF S >= n THEN 0 ELSE 1 + Lead(2 * S, n)

\* j more bits (0 <= j <= 7) of a quotient p[1] with remainder p[2], divisor n
MoreBits(p, n, j) ==
    <<p[1] * 2 ^ j + (p[2] * 2 ^ j) \div n, (p[2] * 2 ^ j) % n>>

\* the part of k in 0..28 that falls in the i-th group of 7 bits
Group(k, i) == IF k <= 7 * i THEN 0 ELSE Min(k - 7 * i, 7)

\* the next k bits (k <= 28) of r / n (0 <= r < n < 2^24) and the remainder
FracBits(r, n, k) ==
    MoreBits(MoreBits(MoreBits(MoreBits(<<0, r>>, n, Group(k, 0)),
                               n, Group(k, 1)),
                      n, Group(k, 2)),
             n, Group(k, 3))

\* the float64 nearest to S / n, for integers S >= 0 and n > 0 (S / n < 2^27)
F64Div(S, n) ==
    IF S = 0 THEN F64Zero
    ELSE LET s == Lead(S, n)
             q == (S * 2 ^ s) \div n
             L == BitLen(q)
             p1 == FracBits((S * 2 ^ s) % n, n, 27 - L)
             p2 == FracBits(p1[2], n, 26)
             p3 == FracBits(p2[2], n, 1)
         IN F64Round(q * 2 ^ (27 - L) + p1[1], p2[1], L - 53 - s,
                     p3[1], p3[2] # 0)

\* a <= b for float64 values a, b >= 0
F64Leq(a, b) ==
    \/ a = F64Zero
    \/ /\ b # F64Zero
       /\ \/ a[4] < b[4]
          \/ a[4] = b[4] /\ a[2] < b[2]
          \/ a[4] = b[4] /\ a[2] = b[2] /\ a[3] <= b[3]

\* a + b for float64 values a >= b > 0: b's significand is shifted right by
\* the difference d of the exponents, keeping a guard bit and a sticky flag
F64AddOrdered(a, b) ==
    LET d == Min(a[4] - b[4], 55)
        k == d - 1
        full == IF d < 26 THEN 0 ELSE b[2] \div (2 ^ (d - 26))
        qh == IF d < 26 THEN b[2] \div (2 ^ d) ELSE full \div (2 ^ 26)
        ql == IF d < 26
              THEN b[3] \div (2 ^ d) + (b[2] % (2 ^ d)) * 2 ^ (26 - d)
              ELSE full % (2 ^ 26)
        g == IF d = 0 THEN 0
             ELSE IF k < 26 THEN (b[3] \div (2 ^ k)) % 2
             ELSE (b[2] \div (2 ^ (k - 26))) % 2
        t == IF d = 0 THEN FALSE
             ELSE IF k <= 26 THEN b[3] % (2 ^ k) # 0
             ELSE b[3] # 0 \/ b[2] % (2 ^ (k - 26)) # 0
        sl == (a[3] + ql) % (2 ^ 26)
        sh == a[2] + qh + (a[3] + ql) \div (2 ^ 26)
    IN IF sh < 2 ^ 27
       THEN F64Round(sh, sl, a[4], g, t)
       ELSE F64Round(sh \div 2, sl \div 2 + (sh % 2) * 2 ^ 25, a[4] + 1,
                     sl % 2, g = 1 \/ t)

\* a + b for float64 values a, b >= 0
F64Add(a, b) ==
    IF a = F64Zero THEN b
    ELSE IF b = F64Zero THEN a
    ELSE IF F64Leq(b, a) THEN F64AddOrdered(a, b) ELSE F64AddOrdered(b, a)

\* x + y for two elements of an object array: int + int or float + float
NumAdd(a, b) ==
    IF a[1] = "f64" THEN F64Add(a, b) ELSE Num(a[2] + b[2])

NumLeq(a, b) ==
    IF a[1] = "f64" THEN F64Leq(a, b) ELSE a[2] <= b[2]

RECURSIVE SumSeq(_)
SumSeq(s) == IF s = <<>> THEN 0 ELSE Head(s) + SumSeq(Tail(s))

SeqsUpTo(S, n) == UNION {[1..k -> S] : k \in 0..n}

Range(s) == {s[i] : i \in DOMAIN s}

(***************************************************************************)
(* The geospatial indexer (the h3 library).  The grid is abstracted: a     *)
(* cell of resolution 8 covers one unit of latitude and longitude, a cell  *)
(* of a coarser resolution res covers 2^(8 - res) units.                   *)
(***************************************************************************)
Resolutions == {7, 8}

latlng_to_cell(lat, lon, res) ==
    <<"hex", res, lat \div (2 ^ (8 - res)), lon \div (2 ^ (8 - res))>>

get_resolution(h) == h[2]

\* the order in which groupby sorts the keys of one batch
HexLess(a, b) ==
    \/ a[2] < b[2]
    \/ a[2] = b[2] /\ a[3] < b[3]
    \/ a[2] = b[2] /\ a[3] = b[3] /\ a[4] < b[4]

RECURSIVE SortedKeys(_)
SortedKeys(S) ==
    IF S = {} THEN <<>>
    ELSE LET m == CHOOSE x \in S : \A y \in S \ {x} : HexLess(x, y)
         IN <<m>> \o SortedKeys(S \ {m})

(***************************************************************************)
(* DataFrame operations.                                                   *)
(***************************************************************************)
ColIndex(df, name) == CHOOSE i \in DOMAIN df.cols : df.cols[i] = name

HasCol(df, name) == \E i \in DOMAIN df.cols : df.cols[i] = name

\* df[name] as a sequence of scalars
Column(df, name) == [i \in DOMAIN df.rows |-> df.rows[i][ColIndex(df, name)]]

RECURSIVE SelectIdx(_, _)
SelectIdx(row, idx) ==
    IF idx = <<>> THEN <<>> ELSE <<row[Head(idx)]>> \o SelectIdx(row, Tail(idx))

RECURSIVE KeepIdx(_, _, _)
KeepIdx(cols, names, i) ==
    IF i > Len(cols) THEN <<>>
    ELSE (IF cols[i] \in names THEN <<>> ELSE <<i>>) \o KeepIdx(cols, names, i + 1)

\* df.drop(columns=names, errors='ignore')
Drop(df, names) ==
    LET idx == KeepIdx(df.cols, names, 1)
    IN [cols |-> SelectIdx(df.cols, idx),
        rows |-> [i \in DOMAIN df.rows |-> SelectIdx(df.rows[i], idx)]]

\* the columns of right other than the key, as positions
ValueIdx(right, on) == KeepIdx(right.cols, {on}, 1)

\* the rows of right whose key is k, in right's order
Matches(right, on, k) ==
    SelectSeq(right.rows, LAMBDA r : r[ColIndex(right, on)] = k)

\* mutant of MergeOne: how="inner", a left row without a match is dropped
MergeOneInner(lrow, k, right, on) ==
    LET m == Matches(right, on, k)
        idx == ValueIdx(right, on)
    IN [j \in 1..Len(m) |-> lrow \o SelectIdx(m[j], idx)]

\* the rows a left join emits for one left row
MergeOne(lrow, k, right, on) ==
    LET m == Matches(right, on, k)
        idx == ValueIdx(right, on)
    IN IF m = <<>>
       THEN << lrow \o [j \in 1..Len(idx) |-> NaN] >>
       ELSE [j \in 1..Len(m) |-> lrow \o SelectIdx(m[j], idx)]

RECURSIVE MergeRows(_, _, _, _)
MergeRows(lrows, kl, right, on) ==
    IF lrows = <<>> THEN <<>>
    ELSE MergeOne(Head(lrows), Head(lrows)[kl], right, on)
             \o MergeRows(Tail(lrows), kl, right, on)

\* left.merge(right, on=on, how="left")
Merge(left, right, on) ==
    [cols |-> left.cols \o SelectIdx(right.cols, ValueIdx(right, on)),
     rows |-> MergeRows(left.rows, ColIndex(left, on), right, on)]

\* df.fillna(v): every missing value of every column becomes v
FillNa(df, v) ==
    [cols |-> df.cols,
     rows |-> [i \in DOMAIN df.rows |->
                 [j \in DOMAIN df.rows[i] |->
                    IF df.rows[i][j] = NaN THEN v ELSE df.rows[i][j]]]]

\* df.reindex(columns=columns, fill_value=fill)
Reindex(df, columns, fill) ==
    [cols |-> columns,
     rows |-> [i \in DOMAIN df.rows |->
                 [j \in DOMAIN columns |->
                    IF HasCol(df, columns[j])
                    THEN df.rows[i][ColIndex(df, columns[j])]
                    ELSE fill]]]

\* mutant of AssignColumn: the values land on the rows in reverse order
AssignColumnReversed(df, name, values) ==
    [cols |-> IF HasCol(df, name) THEN df.cols ELSE Append(df.cols, name),
     rows |-> [i \in DOMAIN df.rows |->
                 [j \in 1..(IF HasCol(df, name) THEN Len(df.cols) ELSE Len(df.cols) + 1) |->
                    IF j > Len(df.cols) \/ (HasCol(df, name) /\ j = ColIndex(df, name))
                    THEN values[Len(values) + 1 - i]
                    ELSE df.rows[i][j]]]]

\* df[name] = values, for Len(values) = Len(df.rows)
AssignColumn(df, name, values) ==
    IF HasCol(df, name)
    THEN [cols |-> df.cols,
          rows |-> [i \in DOMAIN df.rows |->
                      [j \in DOMAIN df.cols |->
                         IF j = ColIndex(df, name) THEN values[i]
                         ELSE df.rows[i][j]]]]
    ELSE [cols |-> Append(df.cols, name),
          rows |-> [i \in DOMAIN df.rows |-> Append(df.rows[i], values[i])]]

\* df.to_csv(index=False): the header line, then one line per row
ToCsv(df) == <<df.cols>> \o df.rows

NoFrame == [cols |-> <<>>, rows |-> <<>>]

(***************************************************************************)
(* The streaming aggregator.                                               *)
(***************************************************************************)
\* chunk_df["hex_id"]: the cell of every record of a batch
BatchCells(batch, res) ==
    [i \in DOMAIN batch |-> latlng_to_cell(batch[i].lat, batch[i].lon, res)]

\* one row of grouped: nunique and count of device_id, mean of timestamp
GroupRow(batch, res, c) ==
    LET cells == BatchCells(batch, res)
        idx == {i \in DOMAIN batch : cells[i] = c}
        ts == [i \in DOMAIN batch |-> IF i \in idx THEN batch[i].timestamp ELSE 0]
    IN [hex_id |-> c,
        vals |-> << Num(Cardinality({batch[i].device_id : i \in idx})),
                    Num(Cardinality(idx)),
                    F64Div(SumSeq(ts), Cardinality(idx)) >>]

\* chunk_df.groupby("hex_id").agg(...).reset_index(): one row per cell, sorted
Grouped(batch, res) ==
    LET keys == SortedKeys(Range(BatchCells(batch, res)))
    IN [k \in DOMAIN keys |-> GroupRow(batch, res, keys[k])]

\* hex_features[hex_id] += row[1:].values
AddVals(a, b) == [k \in DOMAIN a |-> NumAdd(a[k], b[k])]

HasKey(d, h) == \E i \in DOMAIN d : d[i].hex_id = h

\* mutant of UpdateOne: "=" in place of "+=", the last batch's row wins
UpdateOneOverwrite(d, row) ==
    IF ~HasKey(d, row.hex_id)
    THEN Append(d, row)
    ELSE [i \in DOMAIN d |-> IF d[i].hex_id = row.hex_id THEN row ELSE d[i]]

\* the body of "for _, row in grouped.iterrows()" for one row
UpdateOne(d, row) ==
    IF ~HasKey(d, row.hex_id)
    THEN Append(d, row)
    ELSE [i \in DOMAIN d |->
            IF d[i].hex_id = row.hex_id
            THEN [hex_id |-> d[i].hex_id, vals |-> AddVals(d[i].vals, row.vals)]
            ELSE d[i]]

RECURSIVE UpdateAll(_, _)
UpdateAll(d, grouped) ==
    IF grouped = <<>> THEN d
    ELSE UpdateAll(UpdateOne(d, Head(grouped)), Tail(grouped))

FeatureCols == <<"device_count", "visit_count", "avg_time">>

\* pd.DataFrame.from_dict(hex_features, orient='index', columns=...)
\*   .reset_index() and rename(columns={"index": "hex_id"})
FromDict(d) ==
    [cols |-> <<"hex_id">> \o FeatureCols,
     rows |-> [i \in DOMAIN d |-> <<d[i].hex_id>> \o d[i].vals]]

(***************************************************************************)
(* The diagnostic cell.                                                    *)
(***************************************************************************)
\* Series.unique(): the values in order of first appearance
RECURSIVE Unique(_)
Unique(s) ==
    IF s = <<>> THEN <<>>
    ELSE LET u == Unique(SubSeq(s, 1, Len(s) - 1))
         IN IF s[Len(s)] \in Range(u) THEN u ELSE Append(u, s[Len(s)])

\* set(df["hex_id"].unique())
HexIdSet(df) == Range(Unique(Column(df, "hex_id")))

\* mutant of MissingHex: the operands of the set difference swapped
MissingHexSwapped(df, features) == HexIdSet(features) \ HexIdSet(df)

\* set(table ids) - set(mobility ids)
MissingHex(df, features) == HexIdSet(df) \ HexIdSet(features)

(***************************************************************************)
(* Training and prediction.                                                *)
(***************************************************************************)
\* np.random.RandomState(42).permutation(n), 1-based
Perm42(n) ==
    CASE n = 1 -> <<1>>
      [] n = 2 -> <<2, 1>>
      [] n = 3 -> <<1, 2, 3>>
      [] n = 4 -> <<2, 4, 1, 3>>
      [] n = 5 -> <<2, 5, 3, 1, 4>>
      [] n = 6 -> <<1, 2, 6, 3, 5, 4>>

\* ceil(0.2 * n)
NTest(n) == (n + 4) \div 5

\* train_test_split(..., test_size=0.2, random_state=42): the numbers of the
\* rows of the training partition (the first NTest(n) go to validation)
TrainIdx(n) == SubSeq(Perm42(n), NTest(n) + 1, n)

TakeRows(rows, idx) == [k \in DOMAIN idx |-> rows[idx[k]]]

NotFitted == [algo |-> "none", columns |-> <<>>, X |-> <<>>, y |-> <<>>]

HasNaN(rows) == \E i \in DOMAIN rows : \E j \in DOMAIN rows[i] : rows[i][j] = NaN

\* what estimator.fit(X_train, y_train) keeps
Fit(algo, X, y) == [algo |-> algo, columns |-> X.cols, X |-> X.rows, y |-> y]

\* fit raises ValueError on an empty or non-finite input
FitFails(X, y) == X.rows = <<>> \/ HasNaN(X.rows) \/ NaN \in Range(y)

\* predict raises ValueError on no rows, NaN, or columns other than fit's
PredictFails(m, X) == X.rows = <<>> \/ HasNaN(X.rows) \/ X.cols # m.columns

\* estimator.predict(X): one value per row, a function of the row's features
Predict(m, X) == [i \in DOMAIN X.rows |-> <<"pred", m.algo, X.rows[i]>>]

\* mutant of FeaturesOf: the target stays among the features
FeaturesOfKeepTarget(df) == Drop(df, {"hex_id"})

\* X = train_merged.drop(columns=["cost_of_living", "hex_id"])
FeaturesOf(df) == Drop(df, {"cost_of_living", "hex_id"})

\* mutant of Align: no reindex to the training columns
AlignNoReindex(merged, columns) == Drop(merged, {"hex_id"})

\* test_X = test_merged.drop(columns=["hex_id"]).reindex(columns=X_train.columns)
Align(merged, columns) == Reindex(Drop(merged, {"hex_id"}), columns, Num(0))

\* <table>.merge(mobility_features_df, on="hex_id", how="left").fillna(0)
Join(table, features) == FillNa(Merge(table, features, "hex_id"), Num(0))

\* example_hex = train["hex_id"].iloc[0]; h3.get_resolution(example_hex)
InferredResolution(df) == get_resolution(Column(df, "hex_id")[1])

(***************************************************************************)
(* The inputs.  The tables' cells come from latitudes 0 and 2, the         *)
(* mobility points from latitudes 0 and 1, so the cell of latitude 2       *)
(* never has mobility features.  Init draws every identifier at the        *)
(* resolution of the notebook's data; InitAgg also draws labeled tables    *)
(* whose identifiers differ in resolution.                                 *)
(***************************************************************************)
TableCols == <<"hex_id", "cost_of_living">>

TableCells(res) == {latlng_to_cell(lat, 0, res) : lat \in {0, 2}}

\* a labeled row: a cell and a target, possibly missing
TrainRows(res) == {<<c, y>> : c \in TableCells(res), y \in {NaN, Num(1)}}

\* an unlabeled row: a cell and an empty target
TestRows(res) == {<<c, NaN>> : c \in TableCells(res)}

Records(devices, lats, stamps) ==
    [device_id : devices, lat : lats, lon : {0}, timestamp : stamps]

Frame(rows) == [cols |-> TableCols, rows |-> rows]

InitState(mob, trainRows, testRows) ==
    /\ mobility = mob
    /\ train = Frame(trainRows)
    /\ test_csv = Frame(testRows)
    /\ test = Frame(testRows)
    /\ pos = 0
    /\ cuts = <<>>
    /\ desired_resolution = 0
    /\ hex_features = <<>>
    /\ mobility_features_df = NoFrame
    /\ missing = [train |-> {}, test |-> {}]
    /\ stdout = <<>>
    /\ train_merged = NoFrame
    /\ X_train = NoFrame
    /\ model_rf = NotFitted
    /\ model_xg = NotFitted
    /\ test_merged = NoFrame
    /\ test_X = NoFrame
    /\ submission_rf = <<>>
    /\ submission_xg = <<>>
    /\ error = "none"
    /\ pc = "resolution"

\* small mobility datasets, every labeled and unlabeled table up to the bounds,
\* at the resolution of the notebook's data
Init ==
    \E res \in {8} :
      \E mob \in SeqsUpTo(Records({"d1"}, {0, 1}, {1}), MaxMobility) :
        \E tr \in SeqsUpTo(TrainRows(res), MaxTrain) :
          \E te \in SeqsUpTo(TestRows(res), MaxTest) :
            InitState(mob, tr, te)

\* two devices and two timestamps at latitude 0, one record at latitude 1
AggRecords ==
    Records({"d1", "d2"}, {0}, {1, 2}) \cup Records({"d1"}, {1}, {1})

\* every mobility dataset over AggRecords up to the bound; a labeled table of
\* two records whose identifiers have, each on its own, either resolution (the
\* notebook reads train.csv as it is and looks at the first identifier only);
\* an unlabeled table at the resolution of the first labeled record
InitAgg ==
    \E res \in Resolutions, res2 \in Resolutions :
      \E mob \in SeqsUpTo(AggRecords, MaxRecords) :
        InitState(mob,
                  << <<latlng_to_cell(0, 0, res), Num(1)>>,
                     <<latlng_to_cell(2, 0, res2), Num(0)>> >>,
                  << <<latlng_to_cell(0, 0, res), NaN>>,
                     <<latlng_to_cell(2, 0, res), NaN>> >>)

(***************************************************************************)
(* The cells of the notebook.                                              *)
(***************************************************************************)
Abort(exc) ==
    /\ error' = exc
    /\ pc' = "aborted"

\* the resolution cell; iloc[0] raises IndexError on an empty table
InferResolution ==
    /\ pc = "resolution"
    /\ IF train.rows = <<>>
       THEN /\ Abort("IndexError")
            /\ UNCHANGED desired_resolution
       ELSE /\ desired_resolution' = InferredResolution(train)
            /\ pc' = "aggregate"
            /\ UNCHANGED error
    /\ UNCHANGED <<train, test_csv, test, mobility, pos, cuts, hex_features,
                   mobility_features_df, missing, stdout, train_merged, X_train,
                   model_rf, model_xg, test_merged, test_X, submission_rf,
                   submission_xg>>

\* one iteration of "for batch in mobility.iter_batches(batch_size=chunk_size)":
\* the next batch holds between 1 and chunk_size records
ProcessBatch ==
    /\ pc = "aggregate"
    /\ pos < Len(mobility)
    /\ \E n \in 1..Min(chunk_size, Len(mobility) - pos) :
         LET batch == SubSeq(mobility, pos + 1, pos + n)
         IN /\ hex_features' =
                   UpdateAll(hex_features, Grouped(batch, desired_resolution))
            /\ pos' = pos + n
            /\ cuts' = Append(cuts, n)
    /\ UNCHANGED <<train, test_csv, test, mobility, desired_resolution,
                   mobility_features_df, missing, stdout, train_merged, X_train,
                   model_rf, model_xg, test_merged, test_X, submission_rf,
                   submission_xg, error, pc>>

\* the stream is exhausted; mobility_features_df = DataFrame.from_dict(...)
ToDataFrame ==
    /\ pc = "aggregate"
    /\ pos = Len(mobility)
    /\ mobility_features_df' = FromDict(hex_features)
    /\ pc' = "diagnose"
    /\ UNCHANGED <<train, test_csv, test, mobility, pos, cuts, desired_resolution,
                   hex_features, missing, stdout, train_merged, X_train,
                   model_rf, model_xg, test_merged, test_X, submission_rf,
                   submission_xg, error>>

\* missing_train_hex, missing_test_hex and the two printed counts
Diagnose ==
    /\ pc = "diagnose"
    /\ LET mt == MissingHex(train, mobility_features_df)
           me == MissingHex(test, mobility_features_df)
       IN /\ missing' = [train |-> mt, test |-> me]
          /\ stdout' = <<Cardinality(mt), Cardinality(me)>>
    /\ pc' = "merge_train"
    /\ UNCHANGED <<train, test_csv, test, mobility, pos, cuts, desired_resolution,
                   hex_features, mobility_features_df, train_merged, X_train,
                   model_rf, model_xg, test_merged, test_X, submission_rf,
                   submission_xg, error>>

\* train_merged = train.merge(mobility_features_df, ...).fillna(0)
MergeTrain ==
    /\ pc = "merge_train"
    /\ train_merged' = Join(train, mobility_features_df)
    /\ pc' = "fit_rf"
    /\ UNCHANGED <<train, test_csv, test, mobility, pos, cuts, desired_resolution,
                   hex_features, mobility_features_df, missing, stdout, X_train,
                   model_rf, model_xg, test_merged, test_X, submission_rf,
                   submission_xg, error>>

\* X, y, train_test_split and <estimator>.fit(X_train, y_train); the validation
\* predictions only feed the printed MSE
FitCell(algo, next) ==
    LET X == FeaturesOf(train_merged)
        y == Column(train_merged, "cost_of_living")
        n == Len(X.rows)
        Xt == [cols |-> X.cols, rows |-> TakeRows(X.rows, TrainIdx(n))]
        yt == TakeRows(y, TrainIdx(n))
        ok == n - NTest(n) > 0 /\ ~FitFails(Xt, yt)
    IN /\ IF ok
          THEN /\ X_train' = Xt
               /\ pc' = next
               /\ UNCHANGED error
          ELSE /\ Abort("ValueError")
               /\ UNCHANGED X_train
       /\ IF algo = "rf"
          THEN /\ model_rf' = (IF ok THEN Fit(algo, Xt, yt) ELSE model_rf)
               /\ UNCHANGED model_xg
          ELSE /\ model_xg' = (IF ok THEN Fit(algo, Xt, yt) ELSE model_xg)
               /\ UNCHANGED model_rf

FitRF ==
    /\ pc = "fit_rf"
    /\ FitCell("rf", "merge_test")
    /\ UNCHANGED <<train, test_csv, test, mobility, pos, cuts, desired_resolution,
                   hex_features, mobility_features_df, missing, stdout,
                   train_merged, test_merged, test_X, submission_rf,
                   submission_xg>>

\* test_merged = test.merge(mobility_features_df, ...).fillna(0)
MergeTest ==
    /\ pc = "merge_test"
    /\ test_merged' = Join(test, mobility_features_df)
    /\ pc' = "align"
    /\ UNCHANGED <<train, test_csv, test, mobility, pos, cuts, desired_resolution,
                   hex_features, mobility_features_df, missing, stdout,
                   train_merged, X_train, model_rf, model_xg, test_X,
                   submission_rf, submission_xg, error>>

\* test_X = test_merged.drop(columns=["hex_id"]).reindex(columns=X_train.columns)
AlignTest ==
    /\ pc = "align"
    /\ test_X' = Align(test_merged, X_train.cols)
    /\ pc' = "predict_rf"
    /\ UNCHANGED <<train, test_csv, test, mobility, pos, cuts, desired_resolution,
                   hex_features, mobility_features_df, missing, stdout,
                   train_merged, X_train, model_rf, model_xg, test_merged,
                   submission_rf, submission_xg, error>>

\* test["cost_of_living"] = <estimator>.predict(tX)
PredictInto(m, tX, next) ==
    IF PredictFails(m, tX) \/ Len(tX.rows) # Len(test.rows)
    THEN /\ Abort("ValueError")
         /\ UNCHANGED test
    ELSE /\ test' = AssignColumn(test, "cost_of_living", Predict(m, tX))
         /\ pc' = next
         /\ UNCHANGED error

PredictRF ==
    /\ pc = "predict_rf"
    /\ PredictInto(model_rf, test_X, "save_rf")
    /\ UNCHANGED <<train, test_csv, mobility, pos, cuts, desired_resolution,
                   hex_features, mobility_features_df, missing, stdout,
                   train_merged, X_train, model_rf, model_xg, test_merged,
                   test_X, submission_rf, submission_xg>>

\* test.to_csv("submission_rf.csv", index=False)
SaveRF ==
    /\ pc = "save_rf"
    /\ submission_rf' = ToCsv(test)
    /\ pc' = "fit_xg"
    /\ UNCHANGED <<train, test_csv, test, mobility, pos, cuts, desired_resolution,
                   hex_features, mobility_features_df, missing, stdout,
                   train_merged, X_train, model_rf, model_xg, test_merged,
                   test_X, submission_xg, error>>

FitXG ==
    /\ pc = "fit_xg"
    /\ FitCell("xg", "predict_xg")
    /\ UNCHANGED <<train, test_csv, test, mobility, pos, cuts, desired_resolution,
                   hex_features, mobility_features_df, missing, stdout,
                   train_merged, test_merged, test_X, submission_rf,
                   submission_xg>>

\* the second prediction cell: merge, align and predict in one cell
PredictXG ==
    /\ pc = "predict_xg"
    /\ LET tm == Join(test, mobility_features_df)
           tX == Align(tm, X_train.cols)
       IN /\ test_merged' = tm
          /\ test_X' = tX
          /\ PredictInto(model_xg, tX, "save_xg")
    /\ UNCHANGED <<train, test_csv, mobility, pos, cuts, desired_resolution,
                   hex_features, mobility_features_df, missing, stdout,
                   train_merged, X_train, model_rf, model_xg, submission_rf,
                   submission_xg>>

\* test.to_csv("submission_xg.csv", index=False)
SaveXG ==
    /\ pc = "save_xg"
    /\ submission_xg' = ToCsv(test)
    /\ pc' = "done"
    /\ UNCHANGED <<train, test_csv, test, mobility, pos, cuts, desired_resolution,
                   hex_features, mobility_features_df, missing, stdout,
                   train_merged, X_train, model_rf, model_xg, test_merged,
                   test_X, submission_rf, error>>

Next ==
    \/ InferResolution
    \/ ProcessBatch
    \/ ToDataFrame
    \/ Diagnose
    \/ MergeTrain
    \/ FitRF
    \/ MergeTest
    \/ AlignTest
    \/ PredictRF
    \/ SaveRF
    \/ FitXG
    \/ PredictXG
    \/ SaveXG

Spec == Init /\ [][Next]_vars

\* the cells up to the end of the aggregation
NextAgg ==
    \/ InferResolution
    \/ ProcessBatch
    \/ ToDataFrame

SpecAgg == InitAgg /\ [][NextAgg]_vars

(***************************************************************************)
(* Definitions shared by the properties.                                   *)
(***************************************************************************)
\* the records of the j-th batch delivered so far
BatchOf(j) ==
    LET start == SumSeq(SubSeq(cuts, 1, j - 1))
    IN SubSeq(mobility, start + 1, start + cuts[j])

\* the records delivered so far
Delivered == SubSeq(mobility, 1, pos)

\* the resolution embedded in the labeled identifiers
TrainResolutions == {get_resolution(h) : h \in Range(Column(train, "hex_id"))}

ZeroVals == <<Num(0), Num(0), Num(0)>>

\* the sum, in batch order, of the statistics of cell c over those of the
\* first j batches that hold c; <<>> when none does
RECURSIVE BatchSum(_, _)
BatchSum(c, j) ==
    IF j = 0 THEN <<>>
    ELSE LET before == BatchSum(c, j - 1)
             own == GroupRow(BatchOf(j), desired_resolution, c).vals
         IN IF c \notin Range(BatchCells(BatchOf(j), desired_resolution))
            THEN before
            ELSE IF before = <<>> THEN own ELSE AddVals(before, own)

Keys(d) == {d[i].hex_id : i \in DOMAIN d}

\* the aggregated features of cell h, zero when the mapping has no row for it
FeaturesOfCell(h) ==
    IF \E j \in DOMAIN mobility_features_df.rows :
           mobility_features_df.rows[j][1] = h
    THEN LET j == CHOOSE j \in DOMAIN mobility_features_df.rows :
                      mobility_features_df.rows[j][1] = h
         IN SubSeq(mobility_features_df.rows[j], 2, 4)
    ELSE ZeroVals

Absent(h) == \A j \in DOMAIN mobility_features_df.rows :
                 mobility_features_df.rows[j][1] # h

Joined(merged) == merged.cols # <<>>

(***************************************************************************)
(* The properties.                                                         *)
(***************************************************************************)
\* C1: once the stream is exhausted, the mapping from cell to visit_count is
\* the count of the dataset's records per cell, whatever the batch boundaries
\* were; so any two ways of cutting the dataset give the same mapping.
C1_CountsIndependentOfBatches ==
    (pc \notin {"resolution", "aggregate", "aborted"}) =>
        LET cells == BatchCells(mobility, desired_resolution)
        IN /\ Len(hex_features) = Cardinality(Keys(hex_features))
           /\ {<<hex_features[i].hex_id, hex_features[i].vals[2]>> :
                   i \in DOMAIN hex_features}
              = {<<c, Num(Cardinality({i \in DOMAIN mobility : cells[i] = c}))>> :
                   c \in Range(cells)}

\* a finished aggregation in which one cell's records span a batch boundary
C1_Witness ==
    /\ pc = "diagnose"
    /\ Len(cuts) >= 2
    /\ LET cells == BatchCells(mobility, desired_resolution)
       IN cells[cuts[1]] = cells[cuts[1] + 1]

\* C2: the joined table has as many rows as the input table, with the same
\* cell identifiers in the same order, for the labeled and the unlabeled table.
C2_JoinKeepsRows ==
    /\ Joined(train_merged) =>
          Column(train_merged, "hex_id") = Column(train, "hex_id")
    /\ Joined(test_merged) =>
          Column(test_merged, "hex_id") = Column(test_csv, "hex_id")

\* both tables repeat a cell identifier, one with features and one without
C2_Witness ==
    /\ pc = "done"
    /\ Len(train.rows) = 2 /\ train.rows[1][1] = train.rows[2][1]
    /\ ~Absent(train.rows[1][1])
    /\ Len(test.rows) = 2 /\ test.rows[1][1] = test.rows[2][1]
    /\ Absent(test.rows[1][1])

\* C3: a row whose cell is absent from the mapping gets zero features and keeps
\* its hex_id and its target, an empty target included (the labeled table, and
\* the first join of the unlabeled table).
C3_AbsentRowsUnchanged ==
    /\ Joined(train_merged) =>
          \A i \in DOMAIN train_merged.rows :
             Absent(train_merged.rows[i][1]) =>
                /\ SubSeq(train_merged.rows[i], 3, 5) = ZeroVals
                /\ SubSeq(train_merged.rows[i], 1, 2) = train.rows[i]
    /\ (Joined(test_merged) /\ pc \in {"align", "predict_rf"}) =>
          \A i \in DOMAIN test_merged.rows :
             Absent(test_merged.rows[i][1]) =>
                /\ SubSeq(test_merged.rows[i], 3, 5) = ZeroVals
                /\ SubSeq(test_merged.rows[i], 1, 2) = test_csv.rows[i]

\* C4: each submission holds the unlabeled table's rows in order, with hex_id
\* unchanged and cost_of_living the model's prediction for that row's features.
C4_PredictorKeepsFrame ==
    /\ (test # test_csv) =>
          /\ test.cols = test_csv.cols
          /\ Column(test, "hex_id") = Column(test_csv, "hex_id")
    /\ \A a \in {"rf", "xg"} :
          LET sub == IF a = "rf" THEN submission_rf ELSE submission_xg
          IN sub # <<>> =>
               /\ sub[1] = test_csv.cols
               /\ Len(sub) = 1 + Len(test_csv.rows)
               /\ \A i \in DOMAIN test_csv.rows :
                     /\ sub[i + 1][1] = test_csv.rows[i][1]
                     /\ sub[i + 1][2] =
                           <<"pred", a, FeaturesOfCell(test_csv.rows[i][1])>>

\* both submissions written for a table with a covered cell and a cell that is
\* in neither the labeled table nor the mobility data
C4_Witness ==
    /\ pc = "done"
    /\ Len(test_csv.rows) = 2
    /\ ~Absent(test_csv.rows[1][1])
    /\ Absent(test_csv.rows[2][1])
    /\ test_csv.rows[2][1] \notin Range(Column(train, "hex_id"))

\* C5: when a labeled row has a missing target, no model is ever fitted.
C5_MissingTargetNeverFitted ==
    (NaN \in Range(Column(train, "cost_of_living"))) =>
        (model_rf = NotFitted /\ model_xg = NotFitted)

\* C6: the columns handed to predict are the columns the model was fitted on,
\* in that order, and neither hex_id nor cost_of_living is among them.
C6_PredictColumnsAligned ==
    Joined(test_X) =>
        /\ test_X.cols = X_train.cols
        /\ pc = "predict_rf" => test_X.cols = model_rf.columns
        /\ pc \in {"save_xg", "done"} => test_X.cols = model_xg.columns
        /\ "hex_id" \notin Range(test_X.cols)
        /\ "cost_of_living" \notin Range(test_X.cols)
        /\ test_X.cols = FeatureCols

\* the aligned table is about to be handed to the first model
C6_Witness ==
    /\ pc = "predict_rf"
    /\ test_X.rows # <<>>
    /\ HasCol(test_merged, "cost_of_living")

\* C7: each printed count is the number of distinct identifiers of the table
\* that have no row in the feature table; the run stops only on a labeled table
\* of fewer than two rows or an empty unlabeled table, never on a count; and
\* the uncovered rows are predicted from zero features.
C7_CoverageDiagnostic ==
    /\ stdout # <<>> =>
          /\ stdout[1] = Cardinality({h \in Range(Column(train, "hex_id")) : Absent(h)})
          /\ stdout[2] = Cardinality({h \in Range(Column(test_csv, "hex_id")) : Absent(h)})
    /\ pc = "aborted" => (Len(train.rows) < 2 \/ Len(test_csv.rows) = 0)
    /\ pc = "done" =>
          \A i \in DOMAIN test.rows :
             Absent(test.rows[i][1]) => test.rows[i][2][3] = ZeroVals

\* a finished run whose two counts are non-zero, the labeled table repeating
\* its uncovered identifier
C7_Witness ==
    /\ pc = "done"
    /\ stdout[1] = 1 /\ stdout[2] > 0
    /\ Len(train.rows) = 2 /\ train.rows[1][1] = train.rows[2][1]

\* C8: a run that has finished aggregation without aborting has converted
\* every point at the resolution embedded in the labeled identifiers: for each
\* resolution found among them, the keys of the mapping are the cells, at that
\* resolution, of the points of the stream.
C8_PointsAtLabeledResolution ==
    (pc \notin {"resolution", "aggregate", "aborted"}) =>
        \A r \in TrainResolutions :
           /\ Keys(hex_features) =
                 {latlng_to_cell(Delivered[i].lat, Delivered[i].lon, r) :
                      i \in DOMAIN Delivered}
           /\ \A h \in Keys(hex_features) : get_resolution(h) = r

C9_SumOfBatches ==
    (pc \notin {"resolution", "aborted"}) =>
        /\ Keys(hex_features) = Range(BatchCells(Delivered, desired_resolution))
        /\ \A i \in DOMAIN hex_features :
              hex_features[i].vals = BatchSum(hex_features[i].hex_id, Len(cuts))

C9_NeverDecremented ==
    \A i \in DOMAIN hex_features :
       \E j \in DOMAIN hex_features' :
          /\ hex_features'[j].hex_id = hex_features[i].hex_id
          /\ \A k \in 1..3 :
                NumLeq(hex_features[i].vals[k], hex_features'[j].vals[k])

\* C9: after every batch each cell's vector is the component-wise sum of the
\* per-batch statistics of the batches that held the cell, and no step lowers
\* a component.
C9_AdditiveMerge == [](C9_SumOfBatches) /\ [][C9_NeverDecremented]_vars

\* one device seen in the same cell in two batches, and batch means 4/3 and 1
\* whose float64 sum is not the float64 nearest to 7/3
C9_Witness ==
    /\ pc = "diagnose"
    /\ Len(cuts) = 2
    /\ Len(hex_features) = 1
    /\ hex_features[1].vals[3] = F64Add(F64Div(4, 3), F64Div(1, 1))
    /\ hex_features[1].vals[3] # F64Div(7, 3)
    /\ hex_features[1].vals[1][2] > Cardinality({mobility[i].device_id : i \in DOMAIN mobility})

\* C10: the second model's predictions, made after the first model's were
\* written into test, are its predictions on the untouched unlabeled table.
C10_SecondModelUnaffected ==
    submission_xg # <<>> =>
        LET clean == Align(Join(test_csv, mobility_features_df), FeatureCols)
        IN /\ Column(test, "cost_of_living") = Predict(model_xg, clean)
           /\ [i \in DOMAIN test.rows |-> submission_xg[i + 1][2]]
                 = Predict(model_xg, clean)

\* the second join carried the first model's predictions in cost_of_living
C10_Witness ==
    /\ pc = "done"
    /\ \E i \in DOMAIN test_merged.rows :
          test_merged.rows[i][ColIndex(test_merged, "cost_of_living")][1] = "pred"
====
